---- MODULE Spec2Model ----
(***************************************************************************)
(* Model of the identity matching engine of smart-face:                    *)
(*   backend/app/services/faiss_service.py  (FAISSService, the index)      *)
(*   backend/app/routes/admin.py            (approve_enrollment)           *)
(*   backend/app/routes/attendance.py       (mark_attendance)              *)
(*   backend/app/routes/super_admin.py      (rebuild_faiss_index)          *)
(*                                                                         *)
(* Numbers: an embedding is a sequence of integers; a stored (normalized)  *)
(* vector is in fixed point with unit SCALE, so a similarity of 1.0 is     *)
(* SCALE and the threshold 0.6 is 600.  Slots are 0-based as in faiss;     *)
(* sequences are 1-based, so slot i is row i+1.                            *)
(***************************************************************************)
EXTENDS Integers, Sequences, FiniteSets, TLC

\* ------------------------------------------------------------------ bounds
\* number of request-handling threads
NumThreads == 2
\* number of identities the store can hold
MaxPersons == 3
\* size of the index contents enumerated for the pure search check
MaxContent == 3
\* requests and restarts in one behaviour
MaxEvents == 3
\* images in one enrollment request
MaxImages == 5

\* --------------------------------------------------------- program constants
\* self.dimension (512 in the source, scaled down)
dimension == 2
\* fixed-point unit of a float32 component
SCALE == 1000
\* "every 10 additions" in the source, scaled down
SAVE_EVERY == 2
\* mark_attendance's threshold=0.6
MARK_THRESHOLD == 600
\* mark_attendance's k=1
MARK_K == 1
\* quality['quality_score'] < 0.3 rejects an enrollment image
QUALITY_MIN == 300

Threads == 1..NumThreads
PersonIds == 1..MaxPersons

\* ------------------------------------------------------------ numeric helpers
Min(a, b) == IF a <= b THEN a ELSE b

RECURSIVE DotFrom(_, _, _)
DotFrom(a, b, i) == IF i > Len(a) THEN 0 ELSE a[i] * b[i] + DotFrom(a, b, i + 1)

\* numpy dot product of two equally long vectors
Dot(a, b) == DotFrom(a, b, 1)

\* the largest r in lo..hi with r * r <= n
RECURSIVE SqrtBetween(_, _, _)
SqrtBetween(n, lo, hi) ==
  IF lo = hi THEN lo
  ELSE LET mid == (lo + hi + 1) \div 2
       IN IF mid <= n \div mid THEN SqrtBetween(n, mid, hi) ELSE SqrtBetween(n, lo, mid - 1)

\* the integer part of the square root
ISqrt(n) == SqrtBetween(n, 0, n)

\* np.linalg.norm
Norm(e) == ISqrt(Dot(e, e))

\* a component that is not a number: numpy's 0.0 / 0.0 (a warning, no
\* exception). No arithmetic is done on it: it only reaches stored rows
NaN == 0 - (2 * SCALE)

\* embedding / np.linalg.norm(embedding), then astype('float32')
Normalize(e) ==
  IF Norm(e) = 0 THEN [i \in 1..Len(e) |-> NaN]
  ELSE [i \in 1..Len(e) |-> (e[i] * SCALE) \div Norm(e)]

\* IndexFlatIP's metric: the inner product of two stored vectors
InnerProduct(a, b) == Dot(a, b) \div SCALE

\* the embedding enrolled for each identity: 1 and 2 differ, every further
\* identity has the direction of 1 (with another norm)
EmbOf(p) == CASE p = 1 -> <<3, 4>> [] p = 2 -> <<4, 3>> [] OTHER -> <<6, 8>>

\* probe embeddings of mark_attendance requests: the face of identity 2
\* (close to identity 1), and one that is the opposite of identity 1
Queries == {<<4, 3>>, <<-3, -4>>}

\* a row of the index: the stored vector, and (history) the id add_person was
\* called with when it stored the vector
Row(pid, e) == [vec |-> Normalize(e), by |-> pid]

\* ----------------------------------------------------------- faiss search
NoHit == [dist |-> 0 - (2 * SCALE), label |-> -1]

Sim(rows, qn, slot) == InnerProduct(rows[slot + 1].vec, qn)

\* faiss IndexFlatIP.search(x, k) for one query: k entries, the best
\* min(k, ntotal) slots by inner product, descending, padded with label -1.
\* The scan visits the slots in order and a slot replaces a kept one only
\* when strictly better, so with k = 1 the lowest best slot is returned.
\* With k > 1 the kept slots come out of a heap: which of several equal
\* slots are kept, and in which order, is not fixed by the library, and
\* every order is a possible outcome.
FaissSearch(rows, qn, k) ==
  LET n == Len(rows)
      m == Min(k, n)
      picks == {f \in [1..m -> 0..(n - 1)] :
                  /\ \A i, j \in 1..m : i # j => f[i] # f[j]
                  /\ k = 1 => \A s \in 0..(n - 1) :
                        Sim(rows, qn, s) = Sim(rows, qn, f[1]) => f[1] <= s
                  /\ \A i \in 1..m : \A j \in 1..m :
                        i < j => Sim(rows, qn, f[i]) >= Sim(rows, qn, f[j])
                  /\ \A s \in 0..(n - 1) :
                        (\A i \in 1..m : f[i] # s) =>
                            \A i \in 1..m : Sim(rows, qn, f[i]) >= Sim(rows, qn, s)}
  IN {[i \in 1..k |-> IF i <= m
                        THEN [dist |-> Sim(rows, qn, f[i]), label |-> f[i]]
                        ELSE NoHit] : f \in picks}


\* --------------------------------------------------------- search, line by line
\* faulty variant: the threshold taken as the floor itself
AcceptRaw(confidence, threshold) == confidence >= threshold

\* line 111: confidence >= (1 - threshold)
Accept(confidence, threshold) == confidence >= SCALE - threshold

\* faulty variant: the handler falls back to the slot number as the identity
search_except_keep(results, hit) == Append(results, <<hit.label, hit.dist>>)

\* lines 118-120: except Exception: return []
search_except(results, hit) == <<>>

\* lines 104-113, one iteration of the loop over the hits; person_ids[idx]
\* raises IndexError when the slot has no label (yet)
LoopStep(results, hit, ids, threshold) ==
  IF hit.label = -1 THEN [raised |-> FALSE, results |-> results]
  ELSE IF Accept(hit.dist, threshold)
       THEN IF hit.label >= Len(ids)
            THEN [raised |-> TRUE, results |-> search_except(results, hit)]
            ELSE [raised |-> FALSE,
                  results |-> Append(results, <<ids[hit.label + 1], hit.dist>>)]
       ELSE [raised |-> FALSE, results |-> results]

RECURSIVE LoopAll(_, _, _, _)
LoopAll(results, hits, ids, threshold) ==
  IF hits = <<>> THEN [raised |-> FALSE, results |-> results]
  ELSE LET r == LoopStep(results, Head(hits), ids, threshold)
       IN IF r.raised THEN r ELSE LoopAll(r.results, Tail(hits), ids, threshold)

\* FAISSService.search run without interruption: the set of its possible
\* returns (one per admissible faiss ordering)
search(rows, ids, none, embedding, k, threshold) ==
  IF none \/ Len(ids) = 0 THEN {<<>>}
  ELSE LET kk == Min(k, Len(ids))
       IN {LoopAll(<<>>, h, ids, threshold).results :
              h \in FaissSearch(rows, Normalize(embedding), kk)}

\* ------------------------------------------------------------------- state
VARIABLES
  phase,          \* "boot": constructed (__init__), "up": initialize has run
  index_none,     \* self.index is None
  index,          \* the rows of self.index (ntotal = Len(index))
  person_ids,     \* self.person_ids
  is_initialized, \* self.is_initialized
  init_path,      \* (history) how initialize ended: "loaded", "created", "fallback"
  disk_index,     \* faiss_index.bin: [st |-> "missing"|"ok"|"corrupt", data]
  disk_mapping,   \* faiss_mapping.pkl, likewise
  person_status,  \* the Person table: id -> "none" | "active"
  user_status,    \* the User table (one User per Person): id -> "none" | "active" | "inactive"
  attendance,     \* the Attendance table: records per user for today's check
  pc,             \* per thread: where its request handler stands
  loc,            \* per thread: the handler's local variables
  snap,           \* (history) the last save that wrote both files of one state
  events,         \* (bound) requests and restarts so far
  since,          \* (history) add_person calls that stored an entry since the
                  \* last save_index call, load or start of a rebuild
  fn              \* the pure-function checks' input and output

vars == <<phase, index_none, index, person_ids, is_initialized, init_path,
          disk_index, disk_mapping, person_status, user_status, attendance, pc, loc,
          snap, events, since, fn>>

service == <<index_none, index, person_ids, is_initialized, init_path>>
disk == <<disk_index, disk_mapping>>

Missing == [st |-> "missing", data |-> <<>>]
Corrupt == [st |-> "corrupt", data |-> <<>>]
File(data) == [st |-> "ok", data |-> data]

NoSnap == [ok |-> FALSE, rows |-> <<>>, ids |-> <<>>, writer |-> 0]
NoFn == [kind |-> "none"]

\* a handler's locals before a request; of the history fields, empty says
\* that search found the index without a vector, chk what the store held
\* about the match when mark_attendance looked it up
Idle == [op |-> "none", pid |-> 0, q |-> <<>>, k |-> 0, hits |-> <<>>,
         results |-> <<>>, failed |-> FALSE, persons |-> <<>>,
         pre |-> NoSnap, fetched |-> FALSE, ret |-> "none", resp |-> 0,
         partial |-> FALSE, created |-> FALSE, rv |-> "none", stale |-> {}, arg |-> 0,
         empty |-> FALSE, chk |-> "none"]

\* ------------------------------------------------------------- start-up
\* faulty variant: the label file is read but not kept
load_index_no_labels(di, dm) ==
  [raised |-> di.st = "corrupt" \/ dm.st = "corrupt", rows |-> di.data, ids |-> <<>>]

\* FAISSService.load_index run by initialize: the state it leaves, or raised
load_index(di, dm) ==
  IF di.st = "corrupt" THEN [raised |-> TRUE, rows |-> <<>>, ids |-> <<>>]
  ELSE IF dm.st = "corrupt" THEN [raised |-> TRUE, rows |-> di.data, ids |-> <<>>]
  ELSE [raised |-> FALSE, rows |-> di.data, ids |-> dm.data]

\* FAISSService.initialize, called once by create_app before requests are served
initialize ==
  /\ phase = "boot"
  /\ phase' = "up"
  /\ index_none' = FALSE
  /\ IF disk_index.st # "missing" /\ disk_mapping.st # "missing"
     THEN LET l == load_index(disk_index, disk_mapping)
          IN IF l.raised
             THEN /\ index' = <<>>
                  /\ person_ids' = <<>>
                  /\ is_initialized' = FALSE
                  /\ init_path' = "fallback"
             ELSE /\ index' = l.rows
                  /\ person_ids' = l.ids
                  /\ is_initialized' = TRUE
                  /\ init_path' = "loaded"
     ELSE /\ index' = <<>>
          /\ person_ids' = <<>>
          /\ is_initialized' = TRUE
          /\ init_path' = "created"
  /\ since' = 0
  /\ UNCHANGED <<disk, person_status, user_status, attendance, pc, loc, snap, events, fn>>

\* the process is killed (or the host stops) and the application is started
\* again: memory is as after __init__, the files and the database remain
Crash ==
  /\ phase = "up"
  /\ phase' = "boot"
  /\ index_none' = TRUE
  /\ index' = <<>>
  /\ person_ids' = <<>>
  /\ is_initialized' = FALSE
  /\ init_path' = "none"
  /\ pc' = [t \in Threads |-> "idle"]
  /\ loc' = [t \in Threads |-> Idle]
  /\ events < MaxEvents
  /\ events' = events + 1
  /\ snap' = IF snap.ok THEN snap ELSE NoSnap
  /\ since' = 0
  /\ UNCHANGED <<disk, person_status, user_status, attendance, fn>>


\* ------------------------------------------------------- request handlers
Set(t, rec) == [loc EXCEPT ![t] = rec]
Goto(t, label) == [pc EXCEPT ![t] = label]

\* Person.query.filter_by(status='active').all(), in primary-key order
RECURSIVE ActiveFrom(_, _)
ActiveFrom(st, p) ==
  IF p > MaxPersons THEN <<>>
  ELSE IF st[p] = "active" THEN <<p>> \o ActiveFrom(st, p + 1)
       ELSE ActiveFrom(st, p + 1)

list_active(st) == ActiveFrom(st, 1)

\* the index built in one step from a list of identities
RECURSIVE RowsFor(_)
RowsFor(ids) ==
  IF ids = <<>> THEN <<>> ELSE <<Row(Head(ids), EmbOf(Head(ids)))>> \o RowsFor(Tail(ids))

\* a behaviour starts from a fresh installation (FAISSService.__init__, no
\* files), or from a running service with identity 1 enrolled, its index
\* saved by a rebuild and loaded at the last start
Init ==
  /\ pc = [t \in Threads |-> "idle"]
  /\ loc = [t \in Threads |-> Idle]
  /\ attendance = [p \in PersonIds |-> 0]
  /\ events = 0
  /\ since = 0
  /\ fn = NoFn
  /\ \/ /\ phase = "boot"
        /\ index_none = TRUE
        /\ index = <<>>
        /\ person_ids = <<>>
        /\ is_initialized = FALSE
        /\ init_path = "none"
        /\ disk_index = Missing
        /\ disk_mapping = Missing
        /\ person_status = [p \in PersonIds |-> "none"]
        /\ user_status = [p \in PersonIds |-> "none"]
        /\ snap = NoSnap
     \/ /\ phase = "up"
        /\ index_none = FALSE
        /\ index = RowsFor(<<1>>)
        /\ person_ids = <<1>>
        /\ is_initialized = TRUE
        /\ init_path = "loaded"
        /\ disk_index = File(RowsFor(<<1>>))
        /\ disk_mapping = File(<<1>>)
        /\ person_status = [p \in PersonIds |-> IF p = 1 THEN "active" ELSE "none"]
        /\ user_status = [p \in PersonIds |-> IF p = 1 THEN "active" ELSE "none"]
        /\ snap = [NoSnap EXCEPT !.ok = TRUE, !.rows = RowsFor(<<1>>), !.ids = <<1>>]

\* Person.id of the next row: the autoincrement primary key
NextPersonId == 1 + Cardinality({p \in PersonIds : person_status[p] # "none"})

\* some rebuild_from_database is between its first and its last statement
Rebuilders == {u \in Threads : loc[u].op = "rebuild" /\ pc[u] # "done"}

\* the identities of the index that the rebuild of thread u is building:
\* those it fetched, or (before its query) those the store holds
Target(u) ==
  IF loc[u].fetched THEN loc[u].persons ELSE list_active(person_status)

\* (history) a read of person_ids at this moment overlaps a rebuild and sees
\* neither the labels of before the rebuild nor those of the rebuilt index
SeesPartialIds(t) ==
  \E u \in Rebuilders \ {t} : person_ids # loc[u].pre.ids /\ person_ids # Target(u)

\* (history) a read of the index at this moment overlaps a rebuild and sees
\* neither the rows of before the rebuild nor those of the rebuilt index
SeesPartialRows(t) ==
  \E u \in Rebuilders \ {t} : index # loc[u].pre.rows /\ index # RowsFor(Target(u))

\* the operations that end in rebuild_from_database
RebuildOps == {"rebuild", "update", "remove"}

\* where add_person returns to: approve_enrollment answers (it ignores the
\* returned value), a direct caller gets the value, rebuild goes on with the
\* next person or with its final save_index
AfterAdd(t, l) ==
  IF l.op \in {"approve", "add"}
  THEN <<"done", [l EXCEPT !.resp = 200,
                           !.rv = IF l.rv = "false" THEN "false" ELSE "true"]>>
  ELSE IF l.k < Len(l.persons)
       THEN <<"add_vec", [l EXCEPT !.k = l.k + 1, !.pid = l.persons[l.k + 1],
                                   !.q = EmbOf(l.persons[l.k + 1]), !.rv = "none"]>>
       ELSE <<"save_idx", [l EXCEPT !.ret = "final", !.rv = "none"]>>

\* where save_index returns to; update_person and remove_person return True
\* after the rebuild (lines 128, 140)
AfterSave(t, l) ==
  IF l.ret = "add" THEN AfterAdd(t, l)
  ELSE <<"done", [l EXCEPT !.resp = 200,
                           !.rv = IF l.op \in {"update", "remove"} THEN "true" ELSE l.rv]>>

\* thread t takes a new request: the server hands a request to a free thread
\* (the lowest free one: the threads are interchangeable)
Accepts(t) ==
  /\ phase = "up"
  /\ pc[t] = "idle"
  /\ \A u \in Threads : u < t => pc[u] # "idle"
  /\ events < MaxEvents

\* approve_enrollment, lines 104-140: the User and the Person are committed
ApproveCommit(t) ==
  /\ Accepts(t)
  /\ events' = events + 1
  /\ NextPersonId \in PersonIds
  /\ person_status' = [person_status EXCEPT ![NextPersonId] = "active"]
  /\ user_status' = [user_status EXCEPT ![NextPersonId] = "active"]
  /\ pc' = Goto(t, "add_vec")
  /\ loc' = Set(t, [Idle EXCEPT !.op = "approve", !.pid = NextPersonId,
                                 !.q = EmbOf(NextPersonId)])
  /\ UNCHANGED <<phase, service, disk, attendance, snap, since, fn>>

\* faulty variant: the length of the embedding is not checked
WrongDimensionUnchecked(e) == FALSE

\* line 59: len(embedding) != self.dimension
WrongDimension(e) == Len(e) # dimension

\* add_person, lines 55-70: create_index when there is no index yet, the
\* dimension check (return False), the normalization and index.add
AddVec(t) ==
  /\ pc[t] = "add_vec"
  /\ LET e == loc[t].q
         l == [loc[t] EXCEPT !.rv = "false"]
         rows == IF index_none THEN <<>> ELSE index
     IN /\ index_none' = FALSE
        /\ person_ids' = IF index_none THEN <<>> ELSE person_ids
        /\ IF WrongDimension(e)
           THEN /\ pc' = Goto(t, AfterAdd(t, l)[1])
                /\ loc' = Set(t, AfterAdd(t, l)[2])
                /\ index' = rows
           ELSE /\ index' = rows \o <<Row(loc[t].pid, e)>>
                /\ pc' = Goto(t, "add_id")
                /\ UNCHANGED loc
  /\ UNCHANGED <<phase, is_initialized, init_path, disk, person_status, user_status, attendance, snap, events, since, fn>>

\* add_person, line 71: person_ids.append
AddId(t) ==
  /\ pc[t] = "add_id"
  /\ person_ids' = Append(person_ids, loc[t].pid)
  /\ since' = since + 1
  /\ pc' = Goto(t, "add_save")
  /\ UNCHANGED <<phase, index_none, index, is_initialized, init_path, disk,
                 person_status, user_status, attendance, loc, snap, events, fn>>

\* add_person, lines 76-79: save every SAVE_EVERY additions, return True
AddSave(t) ==
  /\ pc[t] = "add_save"
  /\ IF Len(person_ids) % SAVE_EVERY = 0
     THEN /\ pc' = Goto(t, "save_idx")
          /\ loc' = Set(t, [loc[t] EXCEPT !.ret = "add"])
     ELSE /\ pc' = Goto(t, AfterAdd(t, loc[t])[1])
          /\ loc' = Set(t, AfterAdd(t, loc[t])[2])
  /\ UNCHANGED <<phase, service, disk, person_status, user_status, attendance, snap, events, since, fn>>

\* save_index, line 187: faiss.write_index; an I/O error is logged and ends
\* the save, leaving the file as it was or cut short
SaveIdx(t) ==
  /\ pc[t] = "save_idx"
  /\ \/ /\ disk_index' = File(index)
        /\ snap' = [ok |-> FALSE, rows |-> index, ids |-> person_ids, writer |-> t]
        /\ pc' = Goto(t, "save_map")
        /\ UNCHANGED loc
     \/ /\ disk_index' \in {disk_index, Corrupt}
        /\ snap' = NoSnap
        /\ pc' = Goto(t, AfterSave(t, loc[t])[1])
        /\ loc' = Set(t, AfterSave(t, loc[t])[2])
  /\ since' = 0
  /\ UNCHANGED <<phase, service, disk_mapping, person_status, user_status, attendance, events, fn>>

\* save_index, lines 190-191: pickle.dump(self.person_ids)
SaveMap(t) ==
  /\ pc[t] = "save_map"
  /\ \/ /\ disk_mapping' = File(person_ids)
        /\ snap' = IF snap.writer = t /\ index = snap.rows /\ person_ids = snap.ids
                   THEN [snap EXCEPT !.ok = TRUE, !.writer = 0] ELSE NoSnap
     \/ /\ disk_mapping' \in {disk_mapping, Corrupt}
        /\ snap' = NoSnap
  /\ pc' = Goto(t, AfterSave(t, loc[t])[1])
  /\ loc' = Set(t, AfterSave(t, loc[t])[2])
  /\ UNCHANGED <<phase, service, disk_index, person_status, user_status, attendance, events, since, fn>>

\* rebuild_from_database (or clear_index) calls create_index, line 44:
\* self.index = faiss.IndexFlatIP(...)
CreateIndex(t, op) ==
  /\ Accepts(t)
  /\ events' = events + 1
  /\ index' = <<>>
  /\ index_none' = FALSE
  /\ pc' = Goto(t, "new_ids")
  /\ loc' = Set(t, [Idle EXCEPT !.op = op,
                      !.pre = [NoSnap EXCEPT !.ok = TRUE, !.rows = index, !.ids = person_ids]])
  /\ since' = 0
  /\ UNCHANGED <<phase, person_ids, is_initialized, init_path, disk,
                 person_status, user_status, attendance, snap, fn>>

\* create_index, line 45: self.person_ids = []
CreateIds(t) ==
  /\ pc[t] = "new_ids"
  /\ person_ids' = <<>>
  /\ pc' = Goto(t, IF loc[t].op \in RebuildOps THEN "query" ELSE "save_idx")
  /\ loc' = Set(t, [loc[t] EXCEPT !.ret = "final"])
  /\ UNCHANGED <<phase, index_none, index, is_initialized, init_path, disk,
                 person_status, user_status, attendance, snap, events, since, fn>>

\* rebuild_from_database, line 159: the query, which raises when the store
\* cannot be read; rebuild_faiss_index then answers 500, update_person and
\* remove_person return False (lines 131-133, 143-145)
RebuildQuery(t) ==
  /\ pc[t] = "query"
  /\ \/ LET ps == list_active(person_status)
            l == [loc[t] EXCEPT !.persons = ps, !.fetched = TRUE, !.k = 0]
        IN /\ pc' = Goto(t, AfterAdd(t, l)[1])
           /\ loc' = Set(t, AfterAdd(t, l)[2])
     \/ /\ pc' = Goto(t, "done")
        /\ loc' = Set(t, [loc[t] EXCEPT !.resp = 500,
                            !.rv = IF loc[t].op = "rebuild" THEN "none" ELSE "false"])
  /\ UNCHANGED <<phase, service, disk, person_status, user_status, attendance, snap, events, since, fn>>

\* the handler has answered; the thread takes the next request
Return(t) ==
  /\ pc[t] = "done"
  /\ pc' = Goto(t, "idle")
  /\ loc' = Set(t, Idle)
  /\ UNCHANGED <<phase, service, disk, person_status, user_status, attendance, snap, events, since, fn>>


\* the statuses update_user_status accepts (line 202); 'suspended' is treated
\* like 'inactive' everywhere (the code only tests status != 'active')
UserStatuses == {"active", "inactive"}

\* (history) the identities whose User is not active in the store
Inactive == {p \in PersonIds : user_status[p] = "inactive"}

\* update_user_status: the User's status is set and committed; the Person row
\* and the index are not touched
UpdateUserStatus(t, user_id, status) ==
  /\ Accepts(t)
  /\ events' = events + 1
  /\ IF user_status[user_id] = "none"
     THEN /\ loc' = Set(t, [Idle EXCEPT !.op = "status", !.pid = user_id, !.resp = 404])
          /\ UNCHANGED user_status
     ELSE /\ loc' = Set(t, [Idle EXCEPT !.op = "status", !.pid = user_id, !.resp = 200])
          /\ user_status' = [user_status EXCEPT ![user_id] = status]
  /\ pc' = Goto(t, "done")
  /\ UNCHANGED <<phase, service, disk, person_status, attendance, snap, since, fn>>

\* mark_attendance, line 37, calls search; search, lines 88-90
SearchCheck(t, q) ==
  /\ Accepts(t)
  /\ events' = events + 1
  /\ IF index_none \/ Len(person_ids) = 0
     THEN /\ pc' = Goto(t, "respond")
          /\ loc' = Set(t, [Idle EXCEPT !.op = "mark", !.q = q, !.stale = Inactive,
                              !.partial = SeesPartialIds(t),
                              !.empty = index_none \/ Len(index) = 0])
     ELSE /\ pc' = Goto(t, "s_k")
          /\ loc' = Set(t, [Idle EXCEPT !.op = "mark", !.q = q, !.stale = Inactive])
  /\ UNCHANGED <<phase, service, disk, person_status, user_status, attendance, snap, since, fn>>

\* search, line 99: k = min(k, len(self.person_ids))
SearchK(t) ==
  /\ pc[t] = "s_k"
  /\ pc' = Goto(t, "s_faiss")
  /\ loc' = Set(t, [loc[t] EXCEPT !.k = Min(MARK_K, Len(person_ids))])
  /\ UNCHANGED <<phase, service, disk, person_status, user_status, attendance, snap, events, since, fn>>

\* search, line 100: self.index.search(embedding, k); with k = 0 faiss
\* raises (its assertion k > 0) or, in builds without it, returns no hit
SearchFaiss(t) ==
  /\ pc[t] = "s_faiss"
  /\ IF loc[t].k = 0
     THEN \E raises \in BOOLEAN :
            /\ pc' = Goto(t, "respond")
            /\ loc' = Set(t, [loc[t] EXCEPT !.failed = raises,
                                !.results = search_except(<<>>, NoHit),
                                !.partial = SeesPartialIds(t),
                                !.empty = Len(index) = 0])
     ELSE \E h \in FaissSearch(index, Normalize(loc[t].q), loc[t].k) :
            /\ pc' = Goto(t, "s_loop")
            /\ loc' = Set(t, [loc[t] EXCEPT !.hits = h, !.partial = SeesPartialRows(t),
                                !.empty = Len(index) = 0])
  /\ UNCHANGED <<phase, service, disk, person_status, user_status, attendance, snap, events, since, fn>>

\* search, lines 104-120: one iteration of the loop, the return after the
\* last one, or the exception handler
SearchLoop(t) ==
  /\ pc[t] = "s_loop"
  /\ LET r == LoopStep(loc[t].results, Head(loc[t].hits), person_ids, MARK_THRESHOLD)
         rest == Tail(loc[t].hits)
     IN IF r.raised
        THEN /\ pc' = Goto(t, "respond")
             /\ loc' = Set(t, [loc[t] EXCEPT !.failed = TRUE, !.results = r.results,
                                 !.hits = <<>>])
        ELSE /\ pc' = Goto(t, IF rest = <<>> THEN "respond" ELSE "s_loop")
             /\ loc' = Set(t, [loc[t] EXCEPT !.results = r.results, !.hits = rest])
  /\ UNCHANGED <<phase, service, disk, person_status, user_status, attendance, snap, events, since, fn>>

\* faulty variant: only the Person row is looked at
NotActivePersonOnly(person_id) ==
  \/ person_id \notin PersonIds
  \/ person_status[person_id] # "active"

\* mark_attendance, lines 45-53: the Person or the User of the match is
\* missing or not active
NotActive(person_id) ==
  \/ person_id \notin PersonIds
  \/ person_status[person_id] # "active"
  \/ user_status[person_id] # "active"

\* mark_attendance, lines 39-53: no match is 404; a match whose Person or
\* User is missing or not active is 403. chk (history) is what the store
\* held about the match when these lines ran
MarkRespond(t) ==
  /\ pc[t] = "respond"
  /\ IF loc[t].results = <<>>
     THEN /\ pc' = Goto(t, "done")
          /\ loc' = Set(t, [loc[t] EXCEPT !.resp = 404])
     ELSE LET person_id == loc[t].results[1][1]
              chk == IF /\ person_id \in PersonIds
                        /\ person_status[person_id] = "active"
                        /\ user_status[person_id] = "active"
                     THEN "active" ELSE "inactive"
          IN IF NotActive(person_id)
             THEN /\ pc' = Goto(t, "done")
                  /\ loc' = Set(t, [loc[t] EXCEPT !.resp = 403, !.chk = chk])
             ELSE /\ pc' = Goto(t, "existing")
                  /\ loc' = Set(t, [loc[t] EXCEPT !.pid = person_id, !.chk = chk])
  /\ UNCHANGED <<phase, service, disk, person_status, user_status, attendance, snap, events, since, fn>>

\* mark_attendance, lines 59-71: the record of today, if there is one
MarkExisting(t) ==
  /\ pc[t] = "existing"
  /\ IF attendance[loc[t].pid] > 0
     THEN /\ pc' = Goto(t, "done")
          /\ loc' = Set(t, [loc[t] EXCEPT !.resp = 200])
     ELSE /\ pc' = Goto(t, "insert")
          /\ UNCHANGED loc
  /\ UNCHANGED <<phase, service, disk, person_status, user_status, attendance, snap, events, since, fn>>

\* mark_attendance, lines 74-95: the record is committed
MarkInsert(t) ==
  /\ pc[t] = "insert"
  /\ attendance' = [attendance EXCEPT ![loc[t].pid] = @ + 1]
  /\ pc' = Goto(t, "done")
  /\ loc' = Set(t, [loc[t] EXCEPT !.resp = 201, !.created = TRUE])
  /\ UNCHANGED <<phase, service, disk, person_status, user_status, snap, events, since, fn>>

\* ------------------------------------------------------------ specification
Next ==
  \/ initialize
  \/ Crash
  \/ \E t \in Threads : ApproveCommit(t)
  \/ \E t \in Threads : AddVec(t)
  \/ \E t \in Threads : AddId(t)
  \/ \E t \in Threads : AddSave(t)
  \/ \E t \in Threads : SaveIdx(t)
  \/ \E t \in Threads : SaveMap(t)
  \/ \E t \in Threads : CreateIndex(t, "rebuild")
  \/ \E t \in Threads : CreateIds(t)
  \/ \E t \in Threads : RebuildQuery(t)
  \/ \E t \in Threads, q \in Queries : SearchCheck(t, q)
  \/ \E t \in Threads : SearchK(t)
  \/ \E t \in Threads : SearchFaiss(t)
  \/ \E t \in Threads : SearchLoop(t)
  \/ \E t \in Threads : MarkRespond(t)
  \/ \E t \in Threads : MarkExisting(t)
  \/ \E t \in Threads : MarkInsert(t)
  \/ \E t \in Threads : Return(t)
  \/ \E t \in Threads, u \in PersonIds, st \in UserStatuses : UpdateUserStatus(t, u, st)

Spec == Init /\ [][Next]_vars


\* --------------------------------------------- search as a function (C7, C9)
\* inputs: an index content (built by add_person from a list of identities),
\* a probe, k and a threshold
Thresholds == {0, 200, 600, 1000}
Probes == {<<3, 4>>, <<4, 3>>, <<-3, -4>>, <<5, 0>>}
Contents == UNION {[1..n -> 1..3] : n \in 0..MaxContent}

InitSearch ==
  /\ phase = "up"
  /\ index_none = FALSE
  /\ index = <<>>
  /\ person_ids = <<>>
  /\ is_initialized = TRUE
  /\ init_path = "created"
  /\ disk_index = Missing
  /\ disk_mapping = Missing
  /\ person_status = [p \in PersonIds |-> "none"]
  /\ user_status = [p \in PersonIds |-> "none"]
  /\ attendance = [p \in PersonIds |-> 0]
  /\ pc = [t \in Threads |-> "idle"]
  /\ loc = [t \in Threads |-> Idle]
  /\ snap = NoSnap
  /\ events = 0
  /\ since = 0
  /\ fn \in [kind : {"search"}, ids : Contents, q : Probes, k : 1..MaxContent,
             threshold : Thresholds, done : {FALSE}, out : {<<>>}]

\* one call search(q, k, threshold) on the index holding fn.ids
ApplySearch ==
  /\ fn.kind = "search" /\ ~fn.done
  /\ \E r \in search(RowsFor(fn.ids), fn.ids, FALSE, fn.q, fn.k, fn.threshold) :
        fn' = [fn EXCEPT !.done = TRUE, !.out = r]
  /\ UNCHANGED <<phase, service, disk, person_status, user_status, attendance, pc, loc, snap, events, since>>

NextSearch == ApplySearch

SpecSearch == InitSearch /\ [][NextSearch]_vars


\* ------------------------------- the service called directly (C15, C18)
\* add_person, update_person and remove_person called one at a time on the
\* service object, add_person with an embedding of any length
BadEmbeddings == {<<5>>, <<3, 4, 0>>}

\* the index holds the first m of the n enrolled identities (entries since
\* the last save are gone after a restart), or the service is as constructed
InitApi ==
  /\ pc = [t \in Threads |-> "idle"]
  /\ loc = [t \in Threads |-> Idle]
  /\ attendance = [p \in PersonIds |-> 0]
  /\ events = 0
  /\ since = 0
  /\ fn = NoFn
  /\ snap = NoSnap
  /\ disk_index = Missing
  /\ disk_mapping = Missing
  /\ \E n \in 0..MaxPersons :
        /\ person_status = [p \in PersonIds |-> IF p <= n THEN "active" ELSE "none"]
        /\ user_status = person_status
        /\ \/ \E m \in 0..n :
                /\ phase = "up"
                /\ index_none = FALSE
                /\ index = RowsFor([i \in 1..m |-> i])
                /\ person_ids = [i \in 1..m |-> i]
                /\ is_initialized = TRUE
                /\ init_path = "created"
           \/ /\ phase = "boot"
              /\ index_none = TRUE
              /\ index = <<>>
              /\ person_ids = <<>>
              /\ is_initialized = FALSE
              /\ init_path = "none"

\* embeddings of the configured length and of norm 0
ZeroEmbeddings == {[i \in 1..dimension |-> 0]}

\* the caller makes its next call when the previous one has returned
Calls(t) ==
  /\ t = 1
  /\ \A u \in Threads : pc[u] = "idle"
  /\ events < MaxEvents

\* a call add_person(person_id, embedding), line 52
AddCall(t, person_id, embedding) ==
  /\ Calls(t)
  /\ events' = events + 1
  /\ pc' = Goto(t, "add_vec")
  /\ loc' = Set(t, [Idle EXCEPT !.op = "add", !.pid = person_id, !.q = embedding,
                      !.pre = [NoSnap EXCEPT !.ok = TRUE, !.rows = index, !.ids = person_ids]])
  /\ UNCHANGED <<phase, service, disk, person_status, user_status, attendance, snap, since, fn>>

\* lines 126, 138: person_id in self.person_ids
InPersonIds(person_id, ids) == \E i \in 1..Len(ids) : ids[i] = person_id

\* update_person / remove_person, lines 124-129 and 137-141: for an id in
\* person_ids, rebuild_from_database (whose first statement is create_index,
\* line 44); otherwise return False
UpdateOrRemove(t, op, person_id) ==
  /\ Calls(t)
  /\ events' = events + 1
  /\ LET l == [Idle EXCEPT !.op = op, !.arg = person_id,
                  !.pre = [NoSnap EXCEPT !.ok = TRUE, !.rows = index, !.ids = person_ids]]
     IN IF InPersonIds(person_id, person_ids)
        THEN /\ index' = <<>>
             /\ index_none' = FALSE
             /\ since' = 0
             /\ pc' = Goto(t, "new_ids")
             /\ loc' = Set(t, l)
        ELSE /\ pc' = Goto(t, "done")
             /\ loc' = Set(t, [l EXCEPT !.rv = "false"])
             /\ UNCHANGED <<index, index_none, since>>
  /\ UNCHANGED <<phase, person_ids, is_initialized, init_path, disk,
                 person_status, user_status, attendance, snap, fn>>

NextApi ==
  \/ \E t \in Threads, p \in PersonIds :
        \E e \in {EmbOf(p)} \cup BadEmbeddings \cup ZeroEmbeddings : AddCall(t, p, e)
  \/ \E t \in Threads, p \in PersonIds : UpdateOrRemove(t, "update", p)
  \/ \E t \in Threads, p \in PersonIds : UpdateOrRemove(t, "remove", p)
  \/ \E t \in Threads : AddVec(t)
  \/ \E t \in Threads : AddId(t)
  \/ \E t \in Threads : AddSave(t)
  \/ \E t \in Threads : SaveIdx(t)
  \/ \E t \in Threads : SaveMap(t)
  \/ \E t \in Threads : CreateIds(t)
  \/ \E t \in Threads : RebuildQuery(t)
  \/ \E t \in Threads : Return(t)

SpecApi == InitApi /\ [][NextApi]_vars



\* ------------------------------------- rebuild and restart, one at a time (C25)
\* the service is up with the first n identities enrolled and active; its
\* index was built and saved by a rebuild and loaded at the last start
InitRebuild ==
  /\ pc = [t \in Threads |-> "idle"]
  /\ loc = [t \in Threads |-> Idle]
  /\ attendance = [p \in PersonIds |-> 0]
  /\ events = 0
  /\ since = 0
  /\ fn = NoFn
  /\ phase = "up"
  /\ index_none = FALSE
  /\ is_initialized = TRUE
  /\ init_path = "loaded"
  /\ \E n \in 1..MaxPersons :
        LET ids == [i \in 1..n |-> i]
        IN /\ person_status = [p \in PersonIds |-> IF p <= n THEN "active" ELSE "none"]
           /\ user_status = person_status
           /\ index = RowsFor(ids)
           /\ person_ids = ids
           /\ disk_index = File(RowsFor(ids))
           /\ disk_mapping = File(ids)
           /\ snap = [NoSnap EXCEPT !.ok = TRUE, !.rows = RowsFor(ids), !.ids = ids]

\* rebuild_faiss_index requests handled one after the other, restarts
NextRebuild ==
  \/ initialize
  \/ Crash
  \/ \E t \in Threads : Calls(t) /\ CreateIndex(t, "rebuild")
  \/ \E t \in Threads : CreateIds(t)
  \/ \E t \in Threads : RebuildQuery(t)
  \/ \E t \in Threads : AddVec(t)
  \/ \E t \in Threads : AddId(t)
  \/ \E t \in Threads : AddSave(t)
  \/ \E t \in Threads : SaveIdx(t)
  \/ \E t \in Threads : SaveMap(t)
  \/ \E t \in Threads : Return(t)

SpecRebuild == InitRebuild /\ [][NextRebuild]_vars


\* -------------------------------------- image quality as a function (C23)
Abs(x) == IF x < 0 THEN 0 - x ELSE x

\* laplacian_var / 100 (line 157, before the clamp), in units of 1 / SCALE
Sharpnesses == {0, 500, 1000, 1500}
\* np.mean(gray) / 255 (line 160): 0 is black, SCALE is white
Brightnesses == {0, 250, 500, 750, 1000}
\* np.std(gray) / 128 (line 163)
Contrasts == {0, 250, 500, 990}

\* assess_image_quality, lines 156-168: the quality_score of an image with
\* these measurements (the weights 0.4, 0.3, 0.3 are 4, 3, 3 tenths)
assess_image_quality(laplacian, brightness, contrast) ==
  LET sharpness == Min(laplacian, SCALE)
  IN (sharpness * 4
      + Min(Abs(brightness - SCALE \div 2) * 2, SCALE) * 3
      + Min(contrast, SCALE) * 3) \div 10

\* two images of equal sharpness and contrast
InitQuality ==
  /\ phase = "up"
  /\ index_none = FALSE
  /\ index = <<>>
  /\ person_ids = <<>>
  /\ is_initialized = TRUE
  /\ init_path = "created"
  /\ disk_index = Missing
  /\ disk_mapping = Missing
  /\ person_status = [p \in PersonIds |-> "none"]
  /\ user_status = [p \in PersonIds |-> "none"]
  /\ attendance = [p \in PersonIds |-> 0]
  /\ pc = [t \in Threads |-> "idle"]
  /\ loc = [t \in Threads |-> Idle]
  /\ snap = NoSnap
  /\ events = 0
  /\ since = 0
  /\ fn \in [kind : {"quality"}, laplacian : Sharpnesses, contrast : Contrasts,
             brightness : Brightnesses, other : Brightnesses, done : {FALSE},
             score : {0}, other_score : {0}]

ApplyQuality ==
  /\ fn.kind = "quality" /\ ~fn.done
  /\ fn' = [fn EXCEPT !.done = TRUE,
                      !.score = assess_image_quality(fn.laplacian, fn.brightness, fn.contrast),
                      !.other_score = assess_image_quality(fn.laplacian, fn.other, fn.contrast)]
  /\ UNCHANGED <<phase, service, disk, person_status, user_status, attendance, pc, loc, snap, events, since>>

NextQuality == ApplyQuality

SpecQuality == InitQuality /\ [][NextQuality]_vars

\* ----------------------------------- the acceptance rules as functions (C24)
\* cosine similarities from -1 to 1 in steps of 0.1
Similarities == {(i - 10) * (SCALE \div 10) : i \in 0..20}

\* verify_face, lines 262-268: is_match
verify_face(similarity, threshold) ==
  LET distance == SCALE - similarity
  IN distance < threshold

\* batch_verify, lines 294-300: the candidate is appended to matches
batch_verify(similarity, threshold) ==
  LET distance == SCALE - similarity
  IN distance < threshold

InitAccept ==
  /\ phase = "up"
  /\ index_none = FALSE
  /\ index = <<>>
  /\ person_ids = <<>>
  /\ is_initialized = TRUE
  /\ init_path = "created"
  /\ disk_index = Missing
  /\ disk_mapping = Missing
  /\ person_status = [p \in PersonIds |-> "none"]
  /\ user_status = [p \in PersonIds |-> "none"]
  /\ attendance = [p \in PersonIds |-> 0]
  /\ pc = [t \in Threads |-> "idle"]
  /\ loc = [t \in Threads |-> Idle]
  /\ snap = NoSnap
  /\ events = 0
  /\ since = 0
  /\ fn \in [kind : {"accept"}, similarity : Similarities, threshold : Thresholds,
             done : {FALSE}, search : {FALSE}, verify_face : {FALSE},
             batch_verify : {FALSE}]

\* one candidate of similarity fn.similarity is put to search's filter
\* (line 111), to verify_face and to batch_verify
ApplyAccept ==
  /\ fn.kind = "accept" /\ ~fn.done
  /\ fn' = [fn EXCEPT !.done = TRUE,
                      !.search = Accept(fn.similarity, fn.threshold),
                      !.verify_face = verify_face(fn.similarity, fn.threshold),
                      !.batch_verify = batch_verify(fn.similarity, fn.threshold)]
  /\ UNCHANGED <<phase, service, disk, person_status, user_status, attendance, pc, loc, snap, events, since>>

NextAccept == ApplyAccept

SpecAccept == InitAccept /\ [][NextAccept]_vars

\* ------------------------------------------------- the cache service (C30)
Keys == {"k1", "k2"}

\* a Python value, named by its repr
Value(x) == [form |-> "value", of |-> x]
\* JSON-serializable values: an int, a str, a list, a dict
Values == {Value("7"), Value("'abc'"), Value("[1, 2]"), Value("{'a': 1}")}
None == Value("None")
\* no entry under the key
Absent == [form |-> "absent", of |-> ""]

\* json.dumps(value): a str holding the JSON text of the value
json_dumps(value) == [form |-> "json", of |-> value.of]
\* json.loads(text): the value the JSON text denotes
json_loads(text) == [form |-> "value", of |-> text.of]

\* CacheService.get, lines 38-50
cache_get(c, key) ==
  IF c.is_available
  THEN IF c.redis[key] # Absent THEN json_loads(c.redis[key]) ELSE None
  ELSE IF c.fallback_cache[key] # Absent THEN c.fallback_cache[key] ELSE None

\* CacheService.get_many, lines 146-165: the dict returned, Absent for a key
\* it does not hold
cache_get_many(c, keys) ==
  [key \in Keys |->
     IF \E i \in 1..Len(keys) : keys[i] = key
     THEN IF c.is_available
          THEN IF c.redis[key] # Absent THEN json_loads(c.redis[key]) ELSE Absent
          ELSE IF c.fallback_cache[key] # Absent
               THEN json_loads(c.fallback_cache[key]) ELSE Absent
     ELSE Absent]

\* CacheService.__init__ and initialize: Redis connected, or the fallback
\* dict. stored (history) is the value last passed to set for each key
InitCache ==
  /\ phase = "up"
  /\ index_none = FALSE
  /\ index = <<>>
  /\ person_ids = <<>>
  /\ is_initialized = TRUE
  /\ init_path = "created"
  /\ disk_index = Missing
  /\ disk_mapping = Missing
  /\ person_status = [p \in PersonIds |-> "none"]
  /\ user_status = [p \in PersonIds |-> "none"]
  /\ attendance = [p \in PersonIds |-> 0]
  /\ pc = [t \in Threads |-> "idle"]
  /\ loc = [t \in Threads |-> Idle]
  /\ snap = NoSnap
  /\ events = 0
  /\ since = 0
  /\ fn \in [kind : {"cache"}, is_available : BOOLEAN,
             redis : {[key \in Keys |-> Absent]},
             fallback_cache : {[key \in Keys |-> Absent]},
             stored : {[key \in Keys |-> Absent]},
             op : {"none"}, key : {"k1"}, out : {Absent}, calls : {0}]

\* CacheService.set, lines 52-67
CacheSet(key, value) ==
  /\ fn.kind = "cache" /\ fn.calls < MaxEvents
  /\ LET serialized == json_dumps(value)
     IN fn' = [fn EXCEPT !.redis = IF fn.is_available
                                   THEN [fn.redis EXCEPT ![key] = serialized] ELSE @,
                         !.fallback_cache = IF fn.is_available THEN @
                                            ELSE [fn.fallback_cache EXCEPT ![key] = serialized],
                         !.stored = [fn.stored EXCEPT ![key] = value],
                         !.op = "set", !.key = key, !.out = Absent,
                         !.calls = fn.calls + 1]
  /\ UNCHANGED <<phase, service, disk, person_status, user_status, attendance, pc, loc, snap, events, since>>

\* a call get(key)
CacheGet(key) ==
  /\ fn.kind = "cache" /\ fn.calls < MaxEvents
  /\ fn' = [fn EXCEPT !.op = "get", !.key = key, !.out = cache_get(fn, key),
                      !.calls = fn.calls + 1]
  /\ UNCHANGED <<phase, service, disk, person_status, user_status, attendance, pc, loc, snap, events, since>>

\* a call get_many([key]); out is the entry of key in the dict returned
CacheGetMany(key) ==
  /\ fn.kind = "cache" /\ fn.calls < MaxEvents
  /\ fn' = [fn EXCEPT !.op = "get_many", !.key = key,
                      !.out = cache_get_many(fn, <<key>>)[key],
                      !.calls = fn.calls + 1]
  /\ UNCHANGED <<phase, service, disk, person_status, user_status, attendance, pc, loc, snap, events, since>>

NextCache ==
  \/ \E key \in Keys, value \in Values : CacheSet(key, value)
  \/ \E key \in Keys : CacheGet(key)
  \/ \E key \in Keys : CacheGetMany(key)

SpecCache == InitCache /\ [][NextCache]_vars

\* ------------------------------ process_enrollment_images (C19, C20)
\* an enrollment image, by what the libraries make of it: whether it decodes
\* (base64_to_image raises ValueError otherwise), its quality_score, and the
\* embedding extract_embedding returns (<<>> stands for None: no face)
Images ==
  {[decodes |-> FALSE, quality |-> 0,   face |-> <<>>],
   [decodes |-> TRUE,  quality |-> 299, face |-> <<600, 800>>],
   [decodes |-> TRUE,  quality |-> 300, face |-> <<>>],
   [decodes |-> TRUE,  quality |-> 300, face |-> <<600, 800>>],
   [decodes |-> TRUE,  quality |-> 500, face |-> <<800, 600>>]}

Batches == UNION {[1..n -> Images] : n \in 0..MaxImages}

Report(idx, status) == [image_index |-> idx, status |-> status]

\* faulty variant: a low-quality image is skipped without a report
process_image_silent_skip(embeddings, quality_reports, idx, img) ==
  IF ~img.decodes
  THEN [embeddings |-> embeddings,
        quality_reports |-> Append(quality_reports, Report(idx + 1, "error"))]
  ELSE IF img.quality < QUALITY_MIN
  THEN [embeddings |-> embeddings, quality_reports |-> quality_reports]
  ELSE IF img.face # <<>>
  THEN [embeddings |-> Append(embeddings, img.face),
        quality_reports |-> Append(quality_reports, Report(idx + 1, "accepted"))]
  ELSE [embeddings |-> embeddings,
        quality_reports |-> Append(quality_reports, Report(idx + 1, "rejected"))]

\* lines 192-235: the body of the loop for the image at position idx (from 0)
process_image(embeddings, quality_reports, idx, img) ==
  IF ~img.decodes
  THEN [embeddings |-> embeddings,
        quality_reports |-> Append(quality_reports, Report(idx + 1, "error"))]
  ELSE IF img.quality < QUALITY_MIN
  THEN [embeddings |-> embeddings,
        quality_reports |-> Append(quality_reports, Report(idx + 1, "rejected"))]
  ELSE IF img.face # <<>>
  THEN [embeddings |-> Append(embeddings, img.face),
        quality_reports |-> Append(quality_reports, Report(idx + 1, "accepted"))]
  ELSE [embeddings |-> embeddings,
        quality_reports |-> Append(quality_reports, Report(idx + 1, "rejected"))]

RECURSIVE SumFrom(_, _, _)
SumFrom(embeddings, c, i) ==
  IF i > Len(embeddings) THEN 0 ELSE embeddings[i][c] + SumFrom(embeddings, c, i + 1)

\* np.mean(embeddings, axis=0)
Mean(embeddings) ==
  [c \in 1..dimension |-> SumFrom(embeddings, c, 1) \div Len(embeddings)]

\* faulty variant: one accepted image is not enough
averaged_embedding_min_two(embeddings) ==
  IF Len(embeddings) < 2 THEN <<>> ELSE Normalize(Mean(embeddings))

\* lines 238-250: None (<<>>) without embeddings, else the normalized mean
averaged_embedding(embeddings) ==
  IF embeddings = <<>> THEN <<>> ELSE Normalize(Mean(embeddings))

InitEnroll ==
  /\ phase = "up"
  /\ index_none = FALSE
  /\ index = <<>>
  /\ person_ids = <<>>
  /\ is_initialized = TRUE
  /\ init_path = "created"
  /\ disk_index = Missing
  /\ disk_mapping = Missing
  /\ person_status = [p \in PersonIds |-> "none"]
  /\ user_status = [p \in PersonIds |-> "none"]
  /\ attendance = [p \in PersonIds |-> 0]
  /\ pc = [t \in Threads |-> "idle"]
  /\ loc = [t \in Threads |-> Idle]
  /\ snap = NoSnap
  /\ events = 0
  /\ since = 0
  /\ fn \in [kind : {"enroll"}, images : Batches, idx : {0}, embeddings : {<<>>},
             quality_reports : {<<>>}, done : {FALSE}, embedding : {<<>>}, resp : {0}]

\* one iteration of the loop of process_enrollment_images
EnrollImage ==
  /\ fn.kind = "enroll" /\ ~fn.done
  /\ fn.idx < Len(fn.images)
  /\ LET r == process_image(fn.embeddings, fn.quality_reports, fn.idx, fn.images[fn.idx + 1])
     IN fn' = [fn EXCEPT !.idx = fn.idx + 1, !.embeddings = r.embeddings,
                         !.quality_reports = r.quality_reports]
  /\ UNCHANGED <<phase, service, disk, person_status, user_status, attendance, pc, loc,
                 snap, events, since>>

\* the return of process_enrollment_images, and approve_enrollment lines
\* 98-102: without an embedding the request is answered 400 with the reports
EnrollReturn ==
  /\ fn.kind = "enroll" /\ ~fn.done
  /\ fn.idx = Len(fn.images)
  /\ LET e == averaged_embedding(fn.embeddings)
     IN fn' = [fn EXCEPT !.done = TRUE, !.embedding = e,
                         !.resp = IF e = <<>> THEN 400 ELSE 200]
  /\ UNCHANGED <<phase, service, disk, person_status, user_status, attendance, pc, loc,
                 snap, events, since>>

NextEnroll == EnrollImage \/ EnrollReturn

SpecEnroll == InitEnroll /\ [][NextEnroll]_vars


\* ================================================================== claims
\* no request handler is between its first and its last statement
Quiescent == phase = "up" /\ \A t \in Threads : pc[t] \in {"idle", "done"}

\* C1: whenever no operation is in progress, the index holds as many vectors
\* as person_ids holds labels.
C1_CountsAgree == Quiescent => Len(index) = Len(person_ids)

\* C2: a search that overlaps a rebuild reads either the complete index of
\* before the rebuild or the complete rebuilt one, never an empty or partly
\* filled index.
C2_NoPartialRead == \A t \in Threads : ~loc[t].partial

\* C3: when rebuild_from_database fails on the query, the caller gets the
\* error and the index and person_ids are what they were before the rebuild.
C3_FailedRebuildKeepsIndex ==
  \A t \in Threads :
    (pc[t] = "done" /\ loc[t].op = "rebuild" /\ loc[t].resp = 500) =>
        (index = loc[t].pre.rows /\ person_ids = loc[t].pre.ids)

\* the persisted artifacts cannot be loaded as one index: one is missing or
\* unreadable, or they differ in length
BadArtifacts ==
  \/ disk_index.st # "ok"
  \/ disk_mapping.st # "ok"
  \/ Len(disk_index.data) # Len(disk_mapping.data)

\* C4: initialize rejects missing, unreadable or disagreeing artifacts and
\* ends with an empty index and empty person_ids.
C4_LoadRejected ==
  [][(initialize /\ BadArtifacts) => (index' = <<>> /\ person_ids' = <<>>)]_vars

\* add_person has stored its vector and not yet returned; save_index is
\* between its two writes; rebuild_from_database has replaced the index and
\* not yet returned
Mutator(t) ==
  \/ pc[t] \in {"add_id", "add_save", "save_map"}
  \/ loc[t].op = "rebuild" /\ pc[t] \notin {"idle", "done"}

\* search has read person_ids (line 88) and not yet returned
Searcher(t) == pc[t] \in {"s_k", "s_faiss", "s_loop"}

\* C5: never two mutators at once, nor a mutator and a search at once.
C5_MutualExclusion ==
  \A t, u \in Threads : t # u => ~(Mutator(t) /\ (Mutator(u) \/ Searcher(u)))

\* every add_person call has left both its vector and its id: each identity
\* has as many vectors in the index as labels in person_ids
NothingLost ==
  \A p \in PersonIds :
    Cardinality({i \in 1..Len(index) : index[i].by = p}) =
      Cardinality({i \in 1..Len(person_ids) : person_ids[i] = p})

\* C6: once the add_person calls have returned, whatever their interleaving,
\* person_ids[i] is the id that add_person was called with for the vector in
\* slot i.
C6_SlotAlignment ==
  (Quiescent /\ NothingLost) =>
    \A i \in 1..Len(person_ids) : index[i].by = person_ids[i]

\* C7: search returns at most k results, each with similarity >= 1 -
\* threshold, ordered by similarity descending.
C7_SearchBounds ==
  (fn.kind = "search" /\ fn.done) =>
    /\ Len(fn.out) <= fn.k
    /\ \A i \in 1..Len(fn.out) : fn.out[i][2] >= SCALE - fn.threshold
    /\ \A i, j \in 1..Len(fn.out) : i < j => fn.out[i][2] >= fn.out[j][2]

\* C7 witness: a search that fills k >= 2 results of different similarity
\* while another stored vector stays below the floor
C7_Witness ==
  /\ fn.kind = "search" /\ fn.done
  /\ fn.k >= 2 /\ Len(fn.out) = fn.k /\ Len(fn.ids) > fn.k
  /\ fn.out[1][2] > fn.out[2][2]

\* C8: a search that fails internally returns no result, and mark_attendance
\* then answers 404 and creates no attendance record.
C8_FailClosed ==
  \A t \in Threads :
    loc[t].failed =>
      /\ loc[t].results = <<>>
      /\ ~loc[t].created
      /\ pc[t] \in {"respond", "done"}
      /\ pc[t] = "done" => loc[t].resp = 404

\* C8 witness: a search raised on person_ids[idx] (the slot had a vector and
\* no label yet) and the request was answered 404
C8_Witness ==
  \E t \in Threads :
    /\ pc[t] = "done" /\ loc[t].failed /\ loc[t].k = 1
    /\ loc[t].resp = 404 /\ Len(index) > 0

\* C9: among stored vectors of equal similarity, search ranks the lower slot
\* first.
C9_LowestSlotFirst ==
  (fn.kind = "search" /\ fn.done) =>
    \A i, j \in 1..Len(fn.out) :
      (i < j /\ fn.out[i][2] = fn.out[j][2]) =>
        \E a, b \in 1..Len(fn.ids) :
          /\ a < b
          /\ fn.ids[a] = fn.out[i][1] /\ fn.ids[b] = fn.out[j][1]
          /\ Sim(RowsFor(fn.ids), Normalize(fn.q), a - 1) = fn.out[i][2]
          /\ Sim(RowsFor(fn.ids), Normalize(fn.q), b - 1) = fn.out[j][2]

\* C10: what a complete save_index wrote of an unchanged index is what
\* load_index gives back: the same rows in the same slots, the same labels
\* in the same order.
C10_RoundTrip ==
  [][(initialize /\ snap.ok) =>
        (init_path' = "loaded" /\ index' = snap.rows /\ person_ids' = snap.ids)]_vars

\* C10 witness: after a restart, the index of two identities that add_person's
\* save wrote has been loaded back
C10_Witness ==
  /\ phase = "up" /\ init_path = "loaded" /\ snap.ok /\ events > 0
  /\ Len(index) = 2 /\ index = snap.rows /\ person_ids = snap.ids
  /\ \A t \in Threads : pc[t] = "idle"

\* C11: when rebuild_from_database completes, the index and person_ids are
\* those of an index built in one step from the store's active identities in
\* store order (as the rebuild fetched them, or as the store holds them now),
\* whatever the index held before and however often the rebuild is run
\* (taken at a completion during which no other operation is in progress).
C11_RebuildIsFreshBuild ==
  [][\A t \in Threads :
       (/\ pc[t] # "done" /\ pc'[t] = "done"
        /\ loc'[t].op = "rebuild" /\ loc'[t].resp = 200
        /\ \A u \in Threads \ {t} : pc[u] \in {"idle", "done"}) =>
          \E ids \in {loc'[t].persons, list_active(person_status')} :
             index' = RowsFor(ids) /\ person_ids' = ids]_vars

\* C12: add_person calls save_index exactly when this is the SAVE_EVERY-th
\* call that stored an entry since the last save_index, load or rebuild.
C12_SaveOnEveryNth ==
  [][\A t \in Threads :
       AddSave(t) => ((pc'[t] = "save_idx") <=> (since = SAVE_EVERY))]_vars

\* the labels a restart would load from the files as they are now
Recovered ==
  IF disk_index.st = "ok" /\ disk_mapping.st = "ok" THEN Len(disk_mapping.data) ELSE 0

\* the entries of the in-memory index that the files do not hold
Unsaved == IF Len(person_ids) > Recovered THEN Len(person_ids) - Recovered ELSE 0

\* C13: between operations, at most SAVE_EVERY - 1 entries of the in-memory
\* index are missing from what is on disk.
C13_BoundedLoss == Quiescent => Unsaved <= SAVE_EVERY - 1

\* C14: at every instant the two files describe one snapshot: both absent,
\* or both readable with as many rows as labels.
C14_FilesOneUnit ==
  \/ disk_index = Missing /\ disk_mapping = Missing
  \/ /\ disk_index.st = "ok" /\ disk_mapping.st = "ok"
     /\ Len(disk_index.data) = Len(disk_mapping.data)

\* C15: add_person with an embedding of another length than the dimension
\* returns False at once: the stored vectors, person_ids and the files are
\* unchanged and no save is started, so every later call finds the state it
\* would have found without the rejected call.
C15_WrongDimensionRejected ==
  [][\A t \in Threads :
       (AddVec(t) /\ Len(loc[t].q) # dimension) =>
          /\ index' = loc[t].pre.rows
          /\ person_ids' = loc[t].pre.ids
          /\ UNCHANGED <<disk, since>>
          /\ pc'[t] = "done"
          /\ loc'[t].rv = "false"]_vars

\* C15 witness: a call with an embedding of the wrong length was rejected on
\* an index that holds entries, after an earlier call stored an entry
C15_Witness ==
  \E t \in Threads :
    /\ pc[t] = "done" /\ loc[t].op = "add" /\ loc[t].rv = "false"
    /\ Len(loc[t].q) # dimension
    /\ events >= 2 /\ since >= 1
    /\ Len(index) > 0 /\ index = loc[t].pre.rows /\ person_ids = loc[t].pre.ids

\* C16: after initialize, in every case, the service holds an index and
\* is_initialized is true; unless the files were loaded the index is empty.
C16_ReadyAfterInitialize ==
  [][initialize =>
       /\ ~index_none'
       /\ is_initialized'
       /\ init_path' # "loaded" => (index' = <<>> /\ person_ids' = <<>>)]_vars

\* C17: a search returns no id of an identity that was already deactivated in
\* the store when the search began.
C17_NoStaleIds ==
  \A t \in Threads :
    \A i \in 1..Len(loc[t].results) : loc[t].results[i][1] \notin loc[t].stale

\* C18: update_person and remove_person, for an id in person_ids, rebuild
\* from the store and return True, and the index is then that of the store's
\* active identities; for an id not in person_ids they return False and the
\* vectors and person_ids are unchanged.
C18_UpdateRemoveRebuild ==
  \A t \in Threads :
    (pc[t] = "done" /\ loc[t].op \in {"update", "remove"}) =>
       IF \E i \in 1..Len(loc[t].pre.ids) : loc[t].pre.ids[i] = loc[t].arg
       THEN /\ loc[t].rv = "true"
            /\ person_ids = list_active(person_status)
            /\ index = RowsFor(person_ids)
       ELSE /\ loc[t].rv = "false"
            /\ index = loc[t].pre.rows
            /\ person_ids = loc[t].pre.ids

\* the reports tagged accepted
Accepted(reports) == {i \in 1..Len(reports) : reports[i].status = "accepted"}

\* C19: process_enrollment_images returns one report per image, in input
\* order, each tagged accepted, rejected or error, and as many embeddings
\* enter the average as there are reports tagged accepted.
C19_OneReportPerImage ==
  (fn.kind = "enroll" /\ fn.done) =>
    /\ Len(fn.quality_reports) = Len(fn.images)
    /\ \A i \in 1..Len(fn.quality_reports) :
          /\ fn.quality_reports[i].image_index = i
          /\ fn.quality_reports[i].status \in {"accepted", "rejected", "error"}
    /\ Len(fn.embeddings) = Cardinality(Accepted(fn.quality_reports))

\* C19 witness: five images, two of low quality and one without a face, gave
\* five reports and an average of two embeddings
C19_Witness ==
  /\ fn.kind = "enroll" /\ fn.done
  /\ Len(fn.images) = 5
  /\ Cardinality({i \in 1..5 : fn.images[i].decodes /\ fn.images[i].quality < QUALITY_MIN}) = 2
  /\ Cardinality({i \in 1..5 : fn.images[i].quality >= QUALITY_MIN /\ fn.images[i].face = <<>>}) = 1
  /\ Len(fn.quality_reports) = 5
  /\ Len(fn.embeddings) = 2

\* C20: every image of the batch is processed whatever happened to the ones
\* before it; no embedding is returned exactly when no image was accepted,
\* and then the reports of all images are returned with the 400 answer.
C20_OnlyEmptyBatchFails ==
  (fn.kind = "enroll" /\ fn.done) =>
    /\ (fn.embedding = <<>>) <=> (Accepted(fn.quality_reports) = {})
    /\ (fn.resp = 400) <=> (fn.embedding = <<>>)
    /\ \A i \in 1..Len(fn.images) :
          \E j \in 1..Len(fn.quality_reports) : fn.quality_reports[j].image_index = i

\* C20 witness: the first image failed to decode, a later one was accepted
\* alone, and an embedding was returned
C20_Witness ==
  /\ fn.kind = "enroll" /\ fn.done
  /\ Len(fn.images) >= 3 /\ ~fn.images[1].decodes
  /\ Cardinality(Accepted(fn.quality_reports)) = 1
  /\ fn.embedding # <<>> /\ fn.resp = 200

\* C21: a search that finds the index without a vector (not yet created, just
\* created or cleared by a rebuild, whatever the labels say at that moment)
\* returns the empty sequence, and the request is answered 404
C21_EmptyIndexNoMatch ==
  \A t \in Threads :
     loc[t].empty =>
       /\ loc[t].results = <<>>
       /\ pc[t] = "done" => loc[t].resp = 404

\* faiss was asked for k > 0 neighbours of an index without vectors while
\* labels were present, and the request has been answered
C21_Witness ==
  \E t \in Threads :
     /\ pc[t] = "done"
     /\ loc[t].empty
     /\ loc[t].k > 0
     /\ loc[t].resp = 404

\* the Euclidean norm of v is 1
UnitNorm(v) ==
  /\ \A i \in 1..Len(v) : v[i] # NaN
  /\ Dot(v, v) = SCALE * SCALE

\* C22: every vector stored in the index has unit norm, whatever add_person
\* was called with
C22_StoredUnitNorm ==
  \A i \in 1..Len(index) : UnitNorm(index[i].vec)

\* C23: quality_score is 0.4 * sharpness + 0.3 * b + 0.3 * contrast with
\* b = 1 - 2 * |brightness - 0.5| clamped to [0, 1], and of two images
\* equal in sharpness and contrast the one nearer brightness 0.5 never
\* scores lower
C23_QualityFormula ==
  (fn.kind = "quality" /\ fn.done) =>
     LET b == Min(SCALE, IF SCALE - 2 * Abs(fn.brightness - SCALE \div 2) < 0 THEN 0
                         ELSE SCALE - 2 * Abs(fn.brightness - SCALE \div 2))
     IN /\ fn.score = (Min(fn.laplacian, SCALE) * 4 + b * 3
                       + Min(fn.contrast, SCALE) * 3) \div 10
        /\ Abs(fn.brightness - SCALE \div 2) <= Abs(fn.other - SCALE \div 2)
             => fn.score >= fn.other_score

\* C24: search, verify_face and batch_verify accept the same candidates
C24_SameAcceptance ==
  (fn.kind = "accept" /\ fn.done) =>
     /\ fn.search <=> fn.verify_face
     /\ fn.search <=> fn.batch_verify

\* (history) the rows of a saved index file name the identities of the
\* mapping file: the two files were written from one state of the index
OneSnapshot ==
  /\ disk_index.st = "ok"
  /\ disk_mapping.st = "ok"
  /\ Len(disk_index.data) = Len(disk_mapping.data)
  /\ \A i \in 1..Len(disk_mapping.data) : disk_index.data[i].by = disk_mapping.data[i]

\* C25: a step of a running rebuild that changes the files and leaves a
\* snapshot a restart would load leaves the complete rebuilt index: until
\* then the files are those of before the rebuild
C25_NoHalfRebuiltSnapshot ==
  [][\A u \in Threads :
       (/\ loc[u].op = "rebuild" /\ pc[u] \notin {"idle", "done"}
        /\ disk' # disk
        /\ OneSnapshot')
       => disk_mapping'.data = list_active(person_status)]_vars

\* C26: a request whose match was not an active Person with an active User
\* when mark_attendance looked them up is answered 403 and creates no
\* record; a record is created only after both were found active
C26_OnlyActiveMarked ==
  \A t \in Threads :
     /\ loc[t].chk = "inactive" => pc[t] = "done" /\ loc[t].resp = 403 /\ ~loc[t].created
     /\ (loc[t].created \/ pc[t] \in {"existing", "insert"}) => loc[t].chk = "active"

\* the index is stale: the best match is a deactivated user, still in the
\* index; the request was answered 403 without a record
C26_Witness ==
  \E t \in Threads :
     /\ pc[t] = "done"
     /\ loc[t].op = "mark"
     /\ loc[t].results # <<>>
     /\ user_status[loc[t].results[1][1]] = "inactive"
     /\ loc[t].resp = 403
     /\ attendance[loc[t].results[1][1]] = 0

\* C27: the Attendance table holds at most one record per user for one date
\* and check type, however the mark_attendance requests are scheduled
C27_OneRecordPerDay ==
  \A p \in PersonIds : attendance[p] <= 1

\* C28: when no request is in progress, no identity labels two slots
C28_NoDuplicateIds ==
  Quiescent =>
    \A i, j \in 1..Len(person_ids) : person_ids[i] = person_ids[j] => i = j

\* C29: at the moment approve_enrollment answers 200 with no other request
\* in progress, the index holds the vector of the Person it committed,
\* labelled with that Person's id
C29_ApprovedIsIndexed ==
  [][\A t \in Threads :
       (/\ loc[t].op = "approve" /\ pc[t] # "done" /\ pc'[t] = "done"
        /\ loc'[t].resp = 200
        /\ \A u \in Threads \ {t} : pc[u] \in {"idle", "done"})
       => \E i \in 1..Min(Len(index'), Len(person_ids')) :
             person_ids'[i] = loc[t].pid /\ index'[i].by = loc[t].pid]_vars

\* C30: get(key) returns the value last set under the key, and agrees with
\* get_many([key])[key], with Redis and with the fallback dict
C30_CacheRoundTrip ==
  fn.kind = "cache" =>
     /\ (fn.op = "get" /\ fn.stored[fn.key] # Absent) => fn.out = fn.stored[fn.key]
     /\ \A key \in Keys :
          fn.stored[key] # Absent => cache_get(fn, key) = cache_get_many(fn, <<key>>)[key]

====
